---------------------------- MODULE Spec2Model ----------------------------
(***************************************************************************)
(* Scene-resource manager (dog::SceneHandler) and frame controller         *)
(* (Renderer) of the dog_core path tracer, as a state machine.             *)
(*                                                                         *)
(* The SceneHandler object is the record `scene`, whose fields carry the   *)
(* names of the C++ members.  The application-owned renderable nodes are   *)
(* the function `nodes`; the application-owned camera is `camera`.         *)
(* Every public method is an operator from the object (and its inputs) to  *)
(* the object after the call and the value returned, so that the Renderer  *)
(* methods can call the SceneHandler methods as the C++ does.              *)
(***************************************************************************)
EXTENDS Integers, Sequences, FiniteSets, TLC

(***************************************************************************)
(* Bounds of the model                                                     *)
(***************************************************************************)
\* capacity of the instance slot pool (SceneHandler.cpp:37)
maxNumInstances == 2
\* capacity of the geometry-instance slot pool (SceneHandler.cpp:36)
maxNumGeometryInstances == 2
\* children the top-level structure, and claims a geometry group, may collect
\* before the model stops adding
MaxChildren == 3
\* distinct non-zero traversable handles the backend may hand out
NumHandles == 1
\* Renderer::maxAccumulationFrames_ (1024 in Renderer.h:55), scaled down
maxAccumulationFrames_ == 3
\* frame numbers the application passes to render()
MaxFrameNumber == 1

\* one node more than the instance pool holds, so that exhaustion happens
MaxNodes == maxNumInstances + 1

(***************************************************************************)
(* Program constants                                                       *)
(***************************************************************************)
\* sentinel of an unallocated slot (UINT32_MAX in the source; the largest
\* integer TLC represents stands for it)
UINT32_MAX == 2147483647
\* ItemID of a node that was never given an identity
INVALID_ID == 0
\* smallest size createNodeInstance gives the IAS instance buffer
MinInstanceBufferSize == 16

Min(a, b) == IF a < b THEN a ELSE b
Max(a, b) == IF a > b THEN a ELSE b

(***************************************************************************)
(* Application-owned renderable nodes.  Node object 0 has no identity      *)
(* (getID() = INVALID_ID); node objects 1..MaxNodes have the ItemID equal  *)
(* to their index.                                                         *)
(***************************************************************************)
NodeObjects == 0 .. MaxNodes
ItemIDs == 1 .. MaxNodes
getID(n) == IF n = 0 THEN INVALID_ID ELSE n
\* the node objects the application destroys while the handler lives; node
\* objects with an identity are interchangeable, so one stands for any
Destroyable == {1}

(***************************************************************************)
(* CgModel values a node may carry when it is added.                       *)
(***************************************************************************)
NullModel ==
    [present |-> FALSE, valid |-> FALSE, vertexCount |-> 0, triangleCount |-> 0,
     x0 |-> 0, xLast |-> 0, surfaces |-> << >>]
InvalidModel ==
    [present |-> TRUE, valid |-> FALSE, vertexCount |-> 0, triangleCount |-> 0,
     x0 |-> 0, xLast |-> 0, surfaces |-> << >>]
\* the one-triangle model of testNodeManagement
TestModel ==
    [present |-> TRUE, valid |-> TRUE, vertexCount |-> 3, triangleCount |-> 1,
     x0 |-> 0, xLast |-> 0, surfaces |-> <<1>>]
QuadModel ==
    [present |-> TRUE, valid |-> TRUE, vertexCount |-> 4, triangleCount |-> 2,
     x0 |-> 0, xLast |-> 1, surfaces |-> <<2>>]
\* a valid model whose only surface has no triangle
EmptySurfaceModel ==
    [present |-> TRUE, valid |-> TRUE, vertexCount |-> 3, triangleCount |-> 0,
     x0 |-> 0, xLast |-> 0, surfaces |-> <<0>>]
Models == {NullModel, InvalidModel, TestModel, QuadModel, EmptySurfaceModel}

(***************************************************************************)
(* computeGeometryHash: vertex count, triangle count and the x coordinate  *)
(* of the first and the last vertex, combined with xor and shifts.         *)
(***************************************************************************)
RECURSIVE BitXor(_, _)
BitXor(a, b) ==
    IF a = 0 THEN b
    ELSE IF b = 0 THEN a
    ELSE (((a % 2) + (b % 2)) % 2) + (2 * BitXor(a \div 2, b \div 2))

\* std::hash<size_t>
hasher(x) == x

computeGeometryHash(cgModel) ==
    LET h0 == hasher(cgModel.vertexCount)
        h1 == BitXor(h0, hasher(cgModel.triangleCount) * 2)
        h2 == IF cgModel.vertexCount > 0
              THEN BitXor(h1, hasher(cgModel.x0) * 4)
              ELSE h1
        h3 == IF cgModel.vertexCount > 1
              THEN BitXor(h2, hasher(cgModel.xLast) * 8)
              ELSE h2
    IN  h3

(***************************************************************************)
(* SlotFinder: a fixed-capacity pool of slot indices.                      *)
(***************************************************************************)
SlotFinder_initialize(numSlots) == [numSlots |-> numSlots, inUse |-> {}]
SlotFinder_finalize == [numSlots |-> 0, inUse |-> {}]

getFirstAvailableSlot(sf) ==
    LET free == (0 .. sf.numSlots - 1) \ sf.inUse
    IN  IF free = {} THEN UINT32_MAX
        ELSE CHOOSE s \in free : \A t \in free : s <= t

setInUse(sf, slot) == [sf EXCEPT !.inUse = @ \cup {slot}]
setNotInUse(sf, slot) == [sf EXCEPT !.inUse = @ \ {slot}]


(***************************************************************************)
(* The SceneHandler object after construction: nothing allocated, the      *)
(* node map and the geometry cache empty.                                  *)
(***************************************************************************)
EmptyMap == [k \in {} |-> 0]

MapPut(f, k, v) == [x \in DOMAIN f \cup {k} |-> IF x = k THEN v ELSE f[x]]
\* faulty variant: the erase that leaves the entry in the map
MapErase_keepsEntry(f, k) == f
MapErase(f, k) == [x \in DOMAIN f \ {k} |-> f[x]]

SceneHandler_new ==
    [initialized_           |-> FALSE,
     material_slot_finder_  |-> SlotFinder_finalize,
     geom_inst_slot_finder_ |-> SlotFinder_finalize,
     inst_slot_finder_      |-> SlotFinder_finalize,
     node_resources_        |-> EmptyMap,
     geometry_cache_        |-> EmptyMap,
     ias_                   |-> 0,
     ias_instance_buffer_   |-> 0,
     as_scratch_mem_        |-> 0,
     ias_mem_               |-> 0,
     traversable_handle_    |-> 0,
     has_geometry_          |-> FALSE,
     ias_needs_rebuild_     |-> FALSE,
     \* the two copies of the instance data table: for each copy, the slots
     \* at which an entry has been written
     inst_data_buffer_      |-> [b \in {0, 1} |-> {}],
     \* not a member: the bottom-level structures built for this handler
     gas_builds             |-> 0,
     \* the class constant maxNumGeometryInstances of this build
     geomInstCapacity       |-> maxNumGeometryInstances]

\* capacity of the material slot pool (SceneHandler.cpp:35)
maxNumMaterials == 1

(***************************************************************************)
(* SceneHandler::initialize.  `fail` names the backend call that throws:   *)
(* "data_buffers" (after the slot finders were initialized) or             *)
(* "light_dist" (after the IAS was created); the catch block calls         *)
(* finalize(), which returns at once because initialized_ is still false.  *)
(***************************************************************************)
InitFailPoints == {"none", "data_buffers", "light_dist"}

SceneHandler_finalize(sh) ==
    IF ~sh.initialized_ THEN sh
    ELSE [sh EXCEPT
            !.as_scratch_mem_        = 0,
            !.ias_instance_buffer_   = 0,
            !.ias_mem_               = 0,
            !.ias_                   = 0,
            !.inst_data_buffer_      = [b \in {0, 1} |-> {}],
            !.inst_slot_finder_      = SlotFinder_finalize,
            !.geom_inst_slot_finder_ = SlotFinder_finalize,
            !.material_slot_finder_  = SlotFinder_finalize,
            !.traversable_handle_    = 0,
            !.has_geometry_          = FALSE,
            !.initialized_           = FALSE]

SceneHandler_initialize(sh, fail) ==
    IF sh.initialized_ THEN [scene |-> sh, ret |-> TRUE]
    ELSE
      LET slots == [sh EXCEPT
                      !.material_slot_finder_  = SlotFinder_initialize(maxNumMaterials),
                      !.geom_inst_slot_finder_ = SlotFinder_initialize(sh.geomInstCapacity),
                      !.inst_slot_finder_      = SlotFinder_initialize(maxNumInstances)]
          withIas == [slots EXCEPT
                        !.inst_data_buffer_ = [b \in {0, 1} |-> {}],
                        !.ias_ = 0]
      IN  IF fail = "data_buffers"
          THEN [scene |-> SceneHandler_finalize(slots), ret |-> FALSE]
          ELSE IF fail = "light_dist"
          THEN [scene |-> SceneHandler_finalize(withIas), ret |-> FALSE]
          ELSE [scene |-> [withIas EXCEPT !.traversable_handle_ = 0,
                                          !.has_geometry_       = FALSE,
                                          !.initialized_        = TRUE],
                ret   |-> TRUE]

(***************************************************************************)
(* buildAccelerationStructures.  `fail` names the backend call that        *)
(* throws, `handle` is what ias_.getHandle() returns after the rebuild.    *)
(***************************************************************************)
BuildFailPoints == {"none", "prepareForBuild", "as_scratch_mem", "rebuild"}

\* OptixAccelBufferSizes the backend asks for an IAS of n instances
tempSizeInBytes(n) == n
outputSizeInBytes(n) == 2 * n

\* faulty variant: a buffer once initialized is never resized
growBuffer_neverResized(current, required) ==
    IF current > 0 THEN current ELSE required
\* a buffer that is initialized to, or grown to, the required size
growBuffer(current, required) ==
    IF current > 0
    THEN (IF required > current THEN required ELSE current)
    ELSE required

\* faulty variant: the catch block that takes the rebuild for done
buildFailed_clearsNeedsRebuild(sh) ==
    [scene |-> [sh EXCEPT !.ias_needs_rebuild_ = FALSE], ret |-> FALSE]
\* faulty variant: the catch block that gives the handle up
buildFailed_dropsHandle(sh) ==
    [scene |-> [sh EXCEPT !.traversable_handle_ = 0], ret |-> FALSE]
\* the catch block: the exception is logged and the call returns false; what
\* the try block did to the members before the throw stays
buildFailed(sh) == [scene |-> sh, ret |-> FALSE]

\* faulty variant: the empty scene reported as a failed build
buildEmpty_fails(sh) == [scene |-> sh, ret |-> FALSE]
\* no instance to build over: the handle is cleared and the call succeeds
buildEmpty(sh) ==
    [scene |-> [sh EXCEPT !.traversable_handle_ = 0,
                          !.has_geometry_       = FALSE],
     ret   |-> TRUE]

buildAccelerationStructures(sh, fail, handle) ==
    IF ~sh.initialized_ THEN [scene |-> sh, ret |-> FALSE]
    ELSE
      LET numInstances == sh.ias_ IN
      IF numInstances = 0 THEN buildEmpty(sh)
      ELSE
        LET s1 == [sh EXCEPT !.as_scratch_mem_ =
                       growBuffer(@, tempSizeInBytes(numInstances))]
            s2 == [s1 EXCEPT !.ias_mem_ =
                       growBuffer(@, outputSizeInBytes(numInstances))]
            s3 == [s2 EXCEPT !.ias_instance_buffer_ =
                       growBuffer(@, numInstances)]
        IN  CASE fail = "prepareForBuild" -> buildFailed(sh)
              [] fail = "as_scratch_mem"  -> buildFailed(sh)
              [] fail = "rebuild"         -> buildFailed(s3)
              [] OTHER ->
                   [scene |-> [s3 EXCEPT !.traversable_handle_ = handle,
                                         !.has_geometry_       = TRUE,
                                         !.ias_needs_rebuild_  = FALSE],
                    ret   |-> TRUE]

(***************************************************************************)
(* createGeometryGroup: whether a geometry group (vertex buffer, one       *)
(* triangle buffer per surface, the bottom-level structure) could be built *)
(* for the model.  All it allocates lives in the caller's local            *)
(* GeometryGroupResources, so only the outcome reaches the handler.        *)
(***************************************************************************)
AddFailPoints == {"none", "createGeometryGroup", "instance_buffer",
                  "createInstance", "map"}

createGeometryGroup(cgModel, fail) ==
    IF ~cgModel.present \/ ~cgModel.valid THEN FALSE
    ELSE IF fail = "createGeometryGroup" THEN FALSE
    ELSE \E i \in 1 .. Len(cgModel.surfaces) : cgModel.surfaces[i] > 0

(***************************************************************************)
(* The geometry cache: hash -> GeometryGroupResources (its ref_count).     *)
(***************************************************************************)
\* faulty variant: the lookup that finds nothing, so that every add builds
lookupGeometryGroup_alwaysMisses(cache, hash) == FALSE
\* geometry_cache_.find(hash) != geometry_cache_.end()
lookupGeometryGroup(cache, hash) == hash \in DOMAIN cache

\* resources.gas.rebuild(...) in a createGeometryGroup that succeeds: one more
\* bottom-level structure was built
buildGAS(sh) == [sh EXCEPT !.gas_builds = @ + 1]

\* faulty variant: the cache hit that does not count the new reference
reuseGeometryGroup_uncounted(cache, hash) == cache
\* geomGroup->ref_count++ on a cache hit
reuseGeometryGroup(cache, hash) ==
    [cache EXCEPT ![hash].ref_count = @ + 1]

\* geometry_cache_[hash] = newGeomGroup; ref_count = 1
insertGeometryGroup(cache, hash) ==
    MapPut(cache, hash, [ref_count |-> 1])

\* geomGroup->ref_count-- on the roll-back paths of addRenderableNode
releaseGeometryGroup(cache, hash) ==
    [cache EXCEPT ![hash].ref_count = @ - 1]

(***************************************************************************)
(* createNodeInstance: places an instance of the group's bottom-level      *)
(* structure in the IAS.  The backend may throw while the instance buffer  *)
(* is sized ("instance_buffer"), while the instance is created             *)
(* ("createInstance", the buffer already sized) or while a data table is   *)
(* mapped ("map", the child already added to the IAS).                     *)
(***************************************************************************)
\* the copy of inst_data_buffer_ that createNodeInstance maps and writes
writtenInstDataBuffer == 0

createNodeInstance(sh, nodeAlive, nodeRes, fail) ==
    IF ~nodeAlive THEN [scene |-> sh, nodeRes |-> nodeRes, ret |-> FALSE]
    ELSE
      LET mustSize == sh.ias_instance_buffer_ = 0
                      \/ sh.ias_instance_buffer_ <= sh.ias_
          newSize  == Max(MinInstanceBufferSize, sh.ias_ * 2)
          sized    == IF mustSize
                      THEN [sh EXCEPT !.ias_instance_buffer_ = newSize]
                      ELSE sh
          indexed  == nodeRes
          placed   == [sized EXCEPT !.ias_ = @ + 1]
          written  == [placed EXCEPT
                         !.inst_data_buffer_[writtenInstDataBuffer] =
                             @ \cup {nodeRes.instance_slot}]
      IN  IF mustSize /\ fail = "instance_buffer"
          THEN [scene |-> sh, nodeRes |-> nodeRes, ret |-> FALSE]
          ELSE IF fail = "createInstance"
          THEN [scene |-> sized, nodeRes |-> indexed, ret |-> FALSE]
          ELSE IF fail = "map"
          THEN [scene |-> placed, nodeRes |-> indexed, ret |-> FALSE]
          ELSE [scene |-> written, nodeRes |-> indexed, ret |-> TRUE]

(***************************************************************************)
(* addRenderableNode(weakNode): n is the node object the weak reference    *)
(* names, cgModel the model it carries at the call.                        *)
(***************************************************************************)
\* faulty variant: the uninitialized handler that reports success
notInitialized_succeeds(sh, nd) == [scene |-> sh, nodes |-> nd, ret |-> TRUE]
\* if (!initialized_) return false
notInitialized(sh, nd) == [scene |-> sh, nodes |-> nd, ret |-> FALSE]

\* faulty variant: the lookup that never finds the node
nodeExists_never(sh, nodeID) == FALSE
\* node_resources_.find(nodeID) != node_resources_.end()
nodeExists(sh, nodeID) == nodeID \in DOMAIN sh.node_resources_

\* faulty variant: the failed add that marks the rebuild pending
addFailed_marksRebuild(s, nd) ==
    [scene |-> [s EXCEPT !.ias_needs_rebuild_ = TRUE], nodes |-> nd,
     ret   |-> FALSE]
\* faulty variant: the top-level structure is rebuilt at once, which gives a
\* new handle and leaves no rebuild pending
markNeedsRebuild_rebuildsNow(sh) ==
    [sh EXCEPT !.ias_needs_rebuild_  = FALSE,
               !.traversable_handle_ = (@ % NumHandles) + 1]
\* ias_needs_rebuild_ = true: the rebuild is left to the next
\* buildAccelerationStructures()
markNeedsRebuild(sh) == [sh EXCEPT !.ias_needs_rebuild_ = TRUE]

\* return false: the handler as the failing path left it, no node flag written
addFailed(s, nd) == [scene |-> s, nodes |-> nd, ret |-> FALSE]

addRenderableNode(sh, nd, n, cgModel, fail) ==
    LET nodeID == getID(n)
        Failed(s) == addFailed(s, nd)
    IN
    IF ~sh.initialized_ THEN notInitialized(sh, nd)
    ELSE IF ~nd[n].alive THEN Failed(sh)
    ELSE IF nodeID = INVALID_ID THEN Failed(sh)
    ELSE IF nodeExists(sh, nodeID) THEN [scene |-> sh, nodes |-> nd, ret |-> TRUE]
    ELSE IF ~cgModel.present \/ ~cgModel.valid THEN Failed(sh)
    ELSE
      LET instance_slot == getFirstAvailableSlot(sh.inst_slot_finder_) IN
      IF instance_slot >= maxNumInstances THEN Failed(sh)
      ELSE
        LET s1 == [sh EXCEPT !.inst_slot_finder_ = setInUse(@, instance_slot)]
            geometry_hash == computeGeometryHash(cgModel)
            cached == lookupGeometryGroup(s1.geometry_cache_, geometry_hash)
        IN
        IF ~cached /\ ~createGeometryGroup(cgModel, fail)
        THEN Failed([s1 EXCEPT !.inst_slot_finder_ =
                                   setNotInUse(@, instance_slot)])
        ELSE
          LET s2 == IF cached
                    THEN [s1 EXCEPT !.geometry_cache_ =
                                  reuseGeometryGroup(@, geometry_hash)]
                    ELSE [buildGAS(s1) EXCEPT !.geometry_cache_ =
                                  insertGeometryGroup(@, geometry_hash)]
              geom_inst_slot == getFirstAvailableSlot(s2.geom_inst_slot_finder_)
          IN
          IF geom_inst_slot >= s2.geomInstCapacity
          THEN Failed([s2 EXCEPT
                         !.inst_slot_finder_ = setNotInUse(@, instance_slot),
                         !.geometry_cache_ =
                             releaseGeometryGroup(@, geometry_hash)])
          ELSE
            LET s3 == [s2 EXCEPT !.geom_inst_slot_finder_ =
                                     setInUse(@, geom_inst_slot)]
                resources == [node                 |-> n,
                              instance_slot        |-> instance_slot,
                              geom_inst_slot       |-> geom_inst_slot,
                              geometry_hash        |-> geometry_hash]
                inst == createNodeInstance(s3, nd[n].alive, resources, fail)
            IN
            IF ~inst.ret
            THEN Failed([inst.scene EXCEPT
                           !.inst_slot_finder_ = setNotInUse(@, instance_slot),
                           !.geom_inst_slot_finder_ =
                               setNotInUse(@, geom_inst_slot),
                           !.geometry_cache_ =
                               releaseGeometryGroup(@, geometry_hash)])
            ELSE
              [scene |-> [markNeedsRebuild(inst.scene) EXCEPT
                            !.node_resources_ = MapPut(@, nodeID, inst.nodeRes),
                            !.has_geometry_ = TRUE],
               nodes |-> [nd EXCEPT ![n].stored = TRUE],
               ret   |-> TRUE]

(***************************************************************************)
(* removeRenderableNodeByID and removeRenderableNode.                      *)
(***************************************************************************)
\* faulty variant: the rebuild is marked pending before the lookup
nodeNotFound_marksRebuild(sh, nd) ==
    [scene |-> [sh EXCEPT !.ias_needs_rebuild_ = TRUE], nodes |-> nd,
     ret   |-> FALSE]
\* the node is not in node_resources_: nothing to remove
nodeNotFound(sh, nd) == [scene |-> sh, nodes |-> nd, ret |-> FALSE]

removeRenderableNodeByID(sh, nd, nodeID) ==
    IF ~sh.initialized_ THEN notInitialized(sh, nd)
    ELSE IF ~nodeExists(sh, nodeID) THEN nodeNotFound(sh, nd)
    ELSE
      LET resources == sh.node_resources_[nodeID]
          s1 == IF resources.instance_slot # UINT32_MAX
                THEN [sh EXCEPT !.inst_slot_finder_ =
                                    setNotInUse(@, resources.instance_slot)]
                ELSE sh
          s2 == IF resources.geom_inst_slot # UINT32_MAX
                THEN [s1 EXCEPT !.geom_inst_slot_finder_ =
                                    setNotInUse(@, resources.geom_inst_slot)]
                ELSE s1
          nd1 == IF nd[resources.node].alive
                 THEN [nd EXCEPT ![resources.node].stored = FALSE]
                 ELSE nd
          erased == MapErase(s2.node_resources_, nodeID)
      IN  [scene |-> [markNeedsRebuild(s2) EXCEPT
                        !.node_resources_    = erased,
                        !.has_geometry_      =
                            IF DOMAIN erased = {} THEN FALSE ELSE @],
           nodes |-> nd1,
           ret   |-> TRUE]

\* faulty variant: the remove by reference that does not look at whether the
\* reference still locks
removeRenderableNode_ignoresExpiry(sh, nd, n) ==
    removeRenderableNodeByID(sh, nd, getID(n))
removeRenderableNode(sh, nd, n) ==
    IF ~sh.initialized_ THEN notInitialized(sh, nd)
    ELSE IF ~nd[n].alive THEN [scene |-> sh, nodes |-> nd, ret |-> FALSE]
    ELSE removeRenderableNodeByID(sh, nd, getID(n))

getNodeCount(sh) == Cardinality(DOMAIN sh.node_resources_)
hasGeometry(sh) == sh.has_geometry_
getTraversableHandle(sh) == sh.traversable_handle_

(***************************************************************************)
(* State.                                                                  *)
(*   scene            the SceneHandler owned by the render context         *)
(*   nodes            the application's node objects: alive (the weak      *)
(*                    reference still locks) and stored (the               *)
(*                    StoredInSceneHandler state flag)                     *)
(*   camera           the application's camera: dirty flag, settings-      *)
(*                    changed flag and pose                                *)
(*   renderContext_ .. frameParams   the Renderer's members; frameParams   *)
(*                    is the parameter block of the last submitted frame   *)
(*   streamChain      the render context's two command streams: the one    *)
(*                    the next frame is submitted on, and for each stream  *)
(*                    the buffer index of the frame in flight on it        *)
(*   lastCall         the call made by the last step and what it returned  *)
(*   liveIDs          the node IDs whose add returned success and that no  *)
(*                    successful remove has named since                    *)
(*   anyRemove        whether a remove has succeeded on this handler       *)
(***************************************************************************)
VARIABLES scene, nodes, camera,
          renderContext_, initialized_,
          accumulationFrame_, cameraChanged_, restartAccumulation_,
          currentCamera_, previousCamera_, frameParams, streamChain,
          lastCall, liveIDs, anyRemove

sceneVars == <<scene, nodes>>
rendererVars == <<renderContext_, initialized_>>
accumVars == <<accumulationFrame_, cameraChanged_, restartAccumulation_,
               currentCamera_, previousCamera_, frameParams>>
frameVars == <<accumVars, streamChain>>
historyVars == <<liveIDs, anyRemove>>
vars == <<scene, nodes, camera, renderContext_, initialized_,
          accumulationFrame_, cameraChanged_, restartAccumulation_,
          currentCamera_, previousCamera_, frameParams, streamChain,
          lastCall, liveIDs, anyRemove>>

Poses == {0, 1}
Handles == 1 .. NumHandles

\* DogShared::PerFramePipelineLaunchParameters frameParams = {}
NoFrameParams ==
    [travHandle |-> 0, numAccumFrames |-> 0, frameIndex |-> 0, camera |-> 0,
     prevCamera |-> 0, bufferIndex |-> 0, resetFlowBuffer |-> FALSE]

(***************************************************************************)
(* The render context's StreamChain: two streams used in turn.  A stream   *)
(* is idle (NoFrame) or carries the frame submitted on it, named by the    *)
(* index of the instance-data buffer copy the frame reads.  lastSubmitted  *)
(* is the stream that took the most recent frame (NoStream before the      *)
(* first).                                                                 *)
(***************************************************************************)
NoFrame == 2
Streams == {0, 1}
NoStream == 2
StreamChain_new ==
    [current |-> 0, inFlight |-> [st \in Streams |-> NoFrame],
     lastSubmitted |-> NoStream]

\* the buffer indices of the frames in flight
busyBuffers(chain) == {chain.inFlight[st] : st \in Streams} \ {NoFrame}

\* getCurrentStream: waits for the frame submitted earlier on the current
\* stream, and returns that stream
getCurrentStream(chain) ==
    [chain EXCEPT !.inFlight[chain.current] = NoFrame]

\* the frame's work is queued on the current stream
submitFrame(chain, bufferIndex) ==
    [chain EXCEPT !.inFlight[chain.current] = bufferIndex,
                  !.lastSubmitted = chain.current]

swapStreams(chain) == [chain EXCEPT !.current = 1 - @]

\* waitAllStreamsComplete: returns when no stream has work left
waitAllStreamsComplete(chain) ==
    [chain EXCEPT !.inFlight = [st \in Streams |-> NoFrame]]

Init ==
    /\ scene = SceneHandler_new
    /\ nodes = [n \in NodeObjects |-> [alive |-> TRUE, stored |-> FALSE]]
    /\ camera = [dirty |-> FALSE, settingsChanged |-> FALSE, pose |-> 0]
    /\ renderContext_ = FALSE
    /\ initialized_ = FALSE
    /\ accumulationFrame_ = 0
    /\ cameraChanged_ = FALSE
    /\ restartAccumulation_ = FALSE
    /\ currentCamera_ = 0
    /\ previousCamera_ = 0
    /\ frameParams = NoFrameParams
    /\ streamChain = StreamChain_new
    /\ lastCall = [op |-> "constructed"]
    /\ liveIDs = {}
    /\ anyRemove = FALSE

\* the bound of the model on what adds may pile up: the children of the IAS
\* and the claims on a geometry group (neither is ever taken back by a remove)
WithinBounds(sh) ==
    /\ sh.ias_ <= MaxChildren
    /\ \A h \in DOMAIN sh.geometry_cache_ :
          sh.geometry_cache_[h].ref_count <= MaxChildren

\* the record of a call: the method and what it returned
Call(op, ret) == [op |-> op, ret |-> ret]

(***************************************************************************)
(* The application destroys a node object: its weak references expire.     *)
(***************************************************************************)
DestroyNode(n) ==
    /\ nodes[n].alive
    /\ nodes' = [nodes EXCEPT ![n] = [alive |-> FALSE, stored |-> FALSE]]
    /\ lastCall' = [op |-> "destroyNode"]
    /\ UNCHANGED <<scene, camera, rendererVars, frameVars, historyVars>>

(***************************************************************************)
(* Calls on the SceneHandler of the live render context.                   *)
(***************************************************************************)
SceneInitialize(fail) ==
    /\ renderContext_
    /\ LET r == SceneHandler_initialize(scene, fail) IN
         /\ scene' = r.scene
         /\ lastCall' = Call("initialize", r.ret)
    /\ UNCHANGED <<nodes, camera, rendererVars, frameVars, historyVars>>

SceneFinalize ==
    /\ renderContext_
    /\ scene' = SceneHandler_finalize(scene)
    /\ lastCall' = [op |-> "finalize"]
    /\ UNCHANGED <<nodes, camera, rendererVars, frameVars, historyVars>>

AddRenderableNode(n, cgModel, fail) ==
    /\ renderContext_
    /\ LET r == addRenderableNode(scene, nodes, n, cgModel, fail) IN
         /\ WithinBounds(r.scene)
         /\ scene' = r.scene
         /\ nodes' = r.nodes
         /\ lastCall' = Call("addRenderableNode", r.ret)
         /\ liveIDs' = IF r.ret THEN liveIDs \cup {getID(n)} ELSE liveIDs
    /\ UNCHANGED <<camera, rendererVars, frameVars, anyRemove>>

RemoveRenderableNode(n) ==
    /\ renderContext_
    /\ LET r == removeRenderableNode(scene, nodes, n) IN
         /\ scene' = r.scene
         /\ nodes' = r.nodes
         /\ lastCall' = Call("removeRenderableNode", r.ret)
         /\ liveIDs' = IF r.ret THEN liveIDs \ {getID(n)} ELSE liveIDs
         /\ anyRemove' = (anyRemove \/ r.ret)
    /\ UNCHANGED <<camera, rendererVars, frameVars>>

RemoveRenderableNodeByID(nodeID) ==
    /\ renderContext_
    /\ LET r == removeRenderableNodeByID(scene, nodes, nodeID) IN
         /\ scene' = r.scene
         /\ nodes' = r.nodes
         /\ lastCall' = Call("removeRenderableNodeByID", r.ret)
         /\ liveIDs' = IF r.ret THEN liveIDs \ {nodeID} ELSE liveIDs
         /\ anyRemove' = (anyRemove \/ r.ret)
    /\ UNCHANGED <<camera, rendererVars, frameVars>>

BuildAccelerationStructures(fail, handle) ==
    /\ renderContext_
    /\ LET r == buildAccelerationStructures(scene, fail, handle) IN
         /\ scene' = r.scene
         /\ lastCall' = Call("buildAccelerationStructures", r.ret)
    /\ UNCHANGED <<nodes, camera, rendererVars, frameVars, historyVars>>

(***************************************************************************)
(* Renderer: life cycle.  initializeEngine creates a render context (and   *)
(* with it a new SceneHandler); `ok` is what RenderContext::initialize     *)
(* returns.  finalize waits for the streams, cleans the context up and     *)
(* drops it, which destroys its SceneHandler.                              *)
(***************************************************************************)
InitializeEngine(ok) ==
    /\ renderContext_' = ok
    /\ initialized_' = (IF ok THEN TRUE ELSE initialized_)
    /\ scene' = SceneHandler_new
    /\ liveIDs' = {}
    /\ anyRemove' = FALSE
    /\ streamChain' = StreamChain_new
    /\ lastCall' = [op |-> "Renderer::initializeEngine", ret |-> ok]
    /\ UNCHANGED <<nodes, camera, accumVars>>

\* cleanup() and reset() of the render context, `waited` being the stream
\* chain at the moment cleanup() is called
cleanupRenderContext(waited) ==
    /\ IF renderContext_
       THEN /\ scene' = SceneHandler_new
            /\ liveIDs' = {}
            /\ anyRemove' = FALSE
            /\ streamChain' = StreamChain_new
            /\ lastCall' = [op |-> "Renderer::finalize",
                            inFlightAtCall    |-> busyBuffers(streamChain),
                            inFlightAtCleanup |-> busyBuffers(waited)]
       ELSE /\ lastCall' = [op |-> "Renderer::finalize",
                            inFlightAtCall    |-> {},
                            inFlightAtCleanup |-> {}]
            /\ UNCHANGED <<scene, liveIDs, anyRemove, streamChain>>
    /\ renderContext_' = FALSE
    /\ initialized_' = FALSE
    /\ UNCHANGED <<nodes, camera, accumVars>>

\* faulty variant: the shutdown that cleans up without waiting for the streams
RendererFinalize_noWait == cleanupRenderContext(streamChain)
RendererFinalize ==
    cleanupRenderContext(waitAllStreamsComplete(streamChain))

(***************************************************************************)
(* Renderer: node management.  Each forwards to the SceneHandler and, on   *)
(* success, rebuilds the acceleration structures if hasGeometry().         *)
(***************************************************************************)
rebuildIfHasGeometry(r, fail, handle) ==
    IF r.ret /\ hasGeometry(r.scene)
    THEN buildAccelerationStructures(r.scene, fail, handle).scene
    ELSE r.scene

RendererAddRenderableNode(n, cgModel, fail, buildFail, handle) ==
    /\ initialized_ /\ renderContext_
    /\ LET r == addRenderableNode(scene, nodes, n, cgModel, fail) IN
         /\ WithinBounds(r.scene)
         /\ scene' = rebuildIfHasGeometry(r, buildFail, handle)
         /\ nodes' = r.nodes
         /\ lastCall' = Call("Renderer::addRenderableNode", r.ret)
         /\ liveIDs' = IF r.ret THEN liveIDs \cup {getID(n)} ELSE liveIDs
    /\ UNCHANGED <<camera, rendererVars, frameVars, anyRemove>>

RendererRemoveRenderableNode(n, buildFail, handle) ==
    /\ initialized_ /\ renderContext_
    /\ LET r == removeRenderableNode(scene, nodes, n) IN
         /\ scene' = rebuildIfHasGeometry(r, buildFail, handle)
         /\ nodes' = r.nodes
         /\ lastCall' = Call("Renderer::removeRenderableNode", r.ret)
         /\ liveIDs' = IF r.ret THEN liveIDs \ {getID(n)} ELSE liveIDs
         /\ anyRemove' = (anyRemove \/ r.ret)
    /\ UNCHANGED <<camera, rendererVars, frameVars>>

RendererRemoveRenderableNodeByID(nodeID, buildFail, handle) ==
    /\ initialized_ /\ renderContext_
    /\ LET r == removeRenderableNodeByID(scene, nodes, nodeID) IN
         /\ scene' = rebuildIfHasGeometry(r, buildFail, handle)
         /\ nodes' = r.nodes
         /\ lastCall' = Call("Renderer::removeRenderableNodeByID", r.ret)
         /\ liveIDs' = IF r.ret THEN liveIDs \ {nodeID} ELSE liveIDs
         /\ anyRemove' = (anyRemove \/ r.ret)
    /\ UNCHANGED <<camera, rendererVars, frameVars>>

(***************************************************************************)
(* The application's camera.                                               *)
(***************************************************************************)
CameraMove(pose) ==
    /\ camera' = [camera EXCEPT !.pose = pose, !.dirty = TRUE]
    /\ lastCall' = [op |-> "camera.move"]
    /\ UNCHANGED <<sceneVars, rendererVars, frameVars, historyVars>>

CameraSettings(changed) ==
    /\ camera' = [camera EXCEPT !.settingsChanged = changed]
    /\ lastCall' = [op |-> "camera.settings"]
    /\ UNCHANGED <<sceneVars, rendererVars, frameVars, historyVars>>

(***************************************************************************)
(* Renderer::render.                                                       *)
(***************************************************************************)
\* updateCameraBody: the members and the camera after the call
\* faulty variant: the previous camera is not saved at the start of the frame
updateCameraBody_keepsPrevious(cur, prev, changed, restart, cam) ==
    IF cam.dirty \/ cam.settingsChanged
    THEN [currentCamera_ |-> cam.pose, previousCamera_ |-> prev,
          cameraChanged_ |-> TRUE, restartAccumulation_ |-> TRUE,
          camera |-> [cam EXCEPT !.dirty = FALSE]]
    ELSE [currentCamera_ |-> cur, previousCamera_ |-> prev,
          cameraChanged_ |-> changed, restartAccumulation_ |-> restart,
          camera |-> cam]
updateCameraBody(cur, prev, changed, restart, cam) ==
    IF cam.dirty \/ cam.settingsChanged
    THEN [currentCamera_ |-> cam.pose, previousCamera_ |-> cur,
          cameraChanged_ |-> TRUE, restartAccumulation_ |-> TRUE,
          camera |-> [cam EXCEPT !.dirty = FALSE]]
    ELSE [currentCamera_ |-> cur, previousCamera_ |-> cur,
          cameraChanged_ |-> changed, restartAccumulation_ |-> restart,
          camera |-> cam]

\* faulty variant: the counter that is incremented without regard to the cap
updateAccumulation_uncapped(accum, changed, restart, updateMotion) ==
    IF updateMotion \/ changed \/ restart THEN 0 ELSE accum + 1
\* faulty variant: the counter that scene motion does not reset
updateAccumulation_ignoresMotion(accum, changed, restart, updateMotion) ==
    IF changed \/ restart THEN 0
    ELSE IF accum < maxAccumulationFrames_ THEN accum + 1
    ELSE accum
\* the accumulation counter after phase 1 (camera) and phase 2 (motion)
updateAccumulation(accum, changed, restart, updateMotion) ==
    LET phase1 == IF changed \/ restart THEN 0
                  ELSE IF accum < maxAccumulationFrames_ THEN accum + 1
                  ELSE accum
    IN  IF updateMotion THEN 0 ELSE phase1

\* faulty variant: the parameters that never ask for the temporal reset
perFrameParameters_noReset(sh, accum, frameNumber, cur, prev, bufferIndex) ==
    [travHandle      |-> getTraversableHandle(sh),
     numAccumFrames  |-> accum,
     frameIndex      |-> frameNumber,
     camera          |-> cur,
     prevCamera      |-> prev,
     bufferIndex     |-> bufferIndex,
     resetFlowBuffer |-> FALSE]
\* the PerFramePipelineLaunchParameters render() fills in for a frame
perFrameParameters(sh, accum, frameNumber, cur, prev, bufferIndex) ==
    [travHandle      |-> getTraversableHandle(sh),
     numAccumFrames  |-> accum,
     frameIndex      |-> frameNumber,
     camera          |-> cur,
     prevCamera      |-> prev,
     bufferIndex     |-> bufferIndex,
     resetFlowBuffer |-> (accum = 0)]

\* the backend call of a frame that throws: none, or a pipeline launch
\* (after the frame's parameters were copied on the stream)
RenderFailPoints == {"none", "launch"}

\* the GPU completes the frame in flight on a stream
FrameComplete(st) ==
    /\ renderContext_
    /\ streamChain.inFlight[st] # NoFrame
    /\ streamChain' = [streamChain EXCEPT !.inFlight[st] = NoFrame]
    /\ lastCall' = [op |-> "frameComplete"]
    /\ UNCHANGED <<sceneVars, camera, rendererVars, accumVars, historyVars>>

Render(frameNumber, updateMotion, fail) ==
    /\ lastCall' = [op |-> "Renderer::render", frameNumber |-> frameNumber,
                    updateMotion |-> updateMotion,
                    ran |-> (initialized_ /\ renderContext_),
                    escaped |-> (initialized_ /\ renderContext_
                                 /\ fail # "none")]
    /\ IF ~initialized_ \/ ~renderContext_
       THEN UNCHANGED <<camera, frameVars>>
       ELSE LET currentStream == getCurrentStream(streamChain)
                bufferIndex == frameNumber % 2
                c == updateCameraBody(currentCamera_, previousCamera_,
                                      cameraChanged_, restartAccumulation_,
                                      camera)
                accum == updateAccumulation(accumulationFrame_,
                                            c.cameraChanged_,
                                            c.restartAccumulation_,
                                            updateMotion)
                submitted == submitFrame(currentStream, bufferIndex)
            IN  /\ camera' = c.camera
                /\ accumulationFrame_' = accum
                /\ cameraChanged_' =
                       (IF c.cameraChanged_ \/ c.restartAccumulation_
                        THEN FALSE ELSE c.cameraChanged_)
                /\ restartAccumulation_' =
                       (IF c.cameraChanged_ \/ c.restartAccumulation_
                        THEN FALSE ELSE c.restartAccumulation_)
                /\ currentCamera_' = c.currentCamera_
                /\ frameParams' =
                       perFrameParameters(scene, accum, frameNumber,
                                          c.currentCamera_, c.previousCamera_,
                                          bufferIndex)
                /\ IF fail = "launch"
                   THEN /\ previousCamera_' = c.previousCamera_
                        /\ streamChain' = submitted
                   ELSE /\ previousCamera_' = c.currentCamera_
                        /\ streamChain' = swapStreams(submitted)
    /\ UNCHANGED <<sceneVars, rendererVars, historyVars>>

\* the backend's part in a build: the call that throws, or the handle returned
BuildOutcomes ==
    {[fail |-> f, handle |-> 0] : f \in BuildFailPoints \ {"none"}}
    \cup {[fail |-> "none", handle |-> h] : h \in Handles}

\* the node's model and the backend's part in an add
AddInputs ==
    {[cgModel |-> m, fail |-> "none"] : m \in Models}
    \cup {[cgModel |-> TestModel, fail |-> f] : f \in AddFailPoints \ {"none"}}

(***************************************************************************)
(* Spec: one SceneHandler, constructed on a live render context, under     *)
(* every sequence of initialize, add, remove and build calls, with every   *)
(* backend failure, while the application may destroy a node.              *)
(***************************************************************************)
SceneHandlerInit ==
    /\ scene = SceneHandler_new
    /\ nodes = [n \in NodeObjects |-> [alive |-> TRUE, stored |-> FALSE]]
    /\ camera = [dirty |-> FALSE, settingsChanged |-> FALSE, pose |-> 0]
    /\ renderContext_ = TRUE
    /\ initialized_ = TRUE
    /\ accumulationFrame_ = 0
    /\ cameraChanged_ = FALSE
    /\ restartAccumulation_ = FALSE
    /\ currentCamera_ = 0
    /\ previousCamera_ = 0
    /\ frameParams = NoFrameParams
    /\ streamChain = StreamChain_new
    /\ lastCall = [op |-> "constructed"]
    /\ liveIDs = {}
    /\ anyRemove = FALSE

\* the same SceneHandler in a build whose geometry-instance pool is smaller
\* than its instance pool
SmallGeomPoolInit ==
    /\ scene = [SceneHandler_new EXCEPT
                  !.geomInstCapacity = maxNumInstances - 1]
    /\ nodes = [n \in NodeObjects |-> [alive |-> TRUE, stored |-> FALSE]]
    /\ camera = [dirty |-> FALSE, settingsChanged |-> FALSE, pose |-> 0]
    /\ renderContext_ = TRUE
    /\ initialized_ = TRUE
    /\ accumulationFrame_ = 0
    /\ cameraChanged_ = FALSE
    /\ restartAccumulation_ = FALSE
    /\ currentCamera_ = 0
    /\ previousCamera_ = 0
    /\ frameParams = NoFrameParams
    /\ streamChain = StreamChain_new
    /\ lastCall = [op |-> "constructed"]
    /\ liveIDs = {}
    /\ anyRemove = FALSE

Next ==
    \/ \E fail \in InitFailPoints : SceneInitialize(fail)
    \/ \E n \in Destroyable : DestroyNode(n)
    \/ \E n \in NodeObjects, in \in AddInputs :
          AddRenderableNode(n, in.cgModel, in.fail)
    \/ \E n \in NodeObjects : RemoveRenderableNode(n)
    \/ \E id \in ItemIDs \cup {INVALID_ID} : RemoveRenderableNodeByID(id)
    \/ \E b \in BuildOutcomes : BuildAccelerationStructures(b.fail, b.handle)

Spec == SceneHandlerInit /\ [][Next]_vars

SmallGeomPoolSpec == SmallGeomPoolInit /\ [][Next]_vars

(***************************************************************************)
(* ReinitSpec: the same SceneHandler when it is also finalized and         *)
(* initialized again, with a backend that fails in initialize only.        *)
(***************************************************************************)
ReinitNext ==
    \/ \E fail \in InitFailPoints : SceneInitialize(fail)
    \/ SceneFinalize
    \/ \E n \in ItemIDs, m \in {TestModel, QuadModel} :
          AddRenderableNode(n, m, "none")
    \/ \E n \in ItemIDs : RemoveRenderableNode(n)
    \/ \E id \in ItemIDs : RemoveRenderableNodeByID(id)
    \/ \E h \in Handles : BuildAccelerationStructures("none", h)

ReinitSpec == SceneHandlerInit /\ [][ReinitNext]_vars

(***************************************************************************)
(* RendererSpec: the Renderer's node management, from the construction of  *)
(* the Renderer, through any number of render contexts.                    *)
(***************************************************************************)
RendererAddInputs ==
    {[cgModel |-> TestModel, fail |-> "none"],
     [cgModel |-> QuadModel, fail |-> "none"],
     [cgModel |-> InvalidModel, fail |-> "none"],
     [cgModel |-> TestModel, fail |-> "map"]}

RendererNext ==
    \/ \E ok \in BOOLEAN : InitializeEngine(ok)
    \/ RendererFinalize
    \/ \E fail \in InitFailPoints : SceneInitialize(fail)
    \/ \E n \in NodeObjects, in \in RendererAddInputs, b \in BuildOutcomes :
          RendererAddRenderableNode(n, in.cgModel, in.fail, b.fail, b.handle)
    \/ \E n \in NodeObjects, b \in BuildOutcomes :
          RendererRemoveRenderableNode(n, b.fail, b.handle)
    \/ \E id \in ItemIDs \cup {INVALID_ID}, b \in BuildOutcomes :
          RendererRemoveRenderableNodeByID(id, b.fail, b.handle)

RendererSpec == Init /\ [][RendererNext]_vars

(***************************************************************************)
(* FrameSpec: the frame controller under every sequence of frames and      *)
(* camera changes.                                                         *)
(***************************************************************************)
FrameNext ==
    \/ \E ok \in BOOLEAN : InitializeEngine(ok)
    \/ RendererFinalize
    \/ \E p \in Poses : CameraMove(p)
    \/ \E b \in BOOLEAN : CameraSettings(b)
    \/ \E f \in 0 .. MaxFrameNumber, um \in BOOLEAN, fail \in RenderFailPoints :
          Render(f, um, fail)
    \/ \E st \in Streams : FrameComplete(st)

FrameSpec == Init /\ [][FrameNext]_vars

(***************************************************************************)
(* PipelineSpec: nodes are added and removed through the Renderer while    *)
(* frames are rendered and complete on the device, with a backend that     *)
(* never fails.                                                            *)
(***************************************************************************)
PipelineNext ==
    \/ \E ok \in BOOLEAN : InitializeEngine(ok)
    \/ RendererFinalize
    \/ SceneInitialize("none")
    \/ \E n \in ItemIDs, h \in Handles :
          RendererAddRenderableNode(n, TestModel, "none", "none", h)
    \/ \E id \in ItemIDs, h \in Handles :
          RendererRemoveRenderableNodeByID(id, "none", h)
    \/ \E f \in 0 .. MaxFrameNumber : Render(f, FALSE, "none")
    \/ \E st \in Streams : FrameComplete(st)

PipelineSpec == Init /\ [][PipelineNext]_vars

(***************************************************************************)
(* LaunchSpec: frames rendered under camera changes and scene motion,      *)
(* while one node is added through the Renderer, which gives the scene a   *)
(* traversable handle.                                                     *)
(***************************************************************************)
LaunchNext ==
    \/ InitializeEngine(TRUE)
    \/ SceneInitialize("none")
    \/ \E h \in Handles :
          RendererAddRenderableNode(1, TestModel, "none", "none", h)
    \/ \E p \in Poses : CameraMove(p)
    \/ \E f \in 0 .. MaxFrameNumber, um \in BOOLEAN : Render(f, um, "none")

LaunchSpec == Init /\ [][LaunchNext]_vars

(***************************************************************************)
(* SteadySpec: the application changes the camera and flags scene motion   *)
(* for a while, and from the first frame it renders without motion on it   *)
(* leaves the camera alone and renders frame after frame without motion.   *)
(* render() is called again and again: the frame loop is weakly fair.      *)
(***************************************************************************)
\* the last step was a frame that ran with no motion flagged
steadyFrame ==
    /\ lastCall.op = "Renderer::render"
    /\ lastCall.ran
    /\ ~lastCall.updateMotion

RenderSteady == \E f \in 0 .. MaxFrameNumber : Render(f, FALSE, "none")

SteadyNext ==
    \/ ~renderContext_ /\ InitializeEngine(TRUE)
    \/ ~steadyFrame /\ \E p \in Poses : CameraMove(p)
    \/ ~steadyFrame /\ \E b \in BOOLEAN : CameraSettings(b)
    \/ ~steadyFrame /\ \E f \in 0 .. MaxFrameNumber : Render(f, TRUE, "none")
    \/ RenderSteady

SteadySpec == Init /\ [][SteadyNext]_vars /\ WF_vars(RenderSteady)

\* the same application when it changes the camera by moving it only
SteadyMoveNext ==
    \/ ~renderContext_ /\ InitializeEngine(TRUE)
    \/ ~steadyFrame /\ \E p \in Poses : CameraMove(p)
    \/ ~steadyFrame /\ \E f \in 0 .. MaxFrameNumber : Render(f, TRUE, "none")
    \/ RenderSteady

SteadyMoveSpec == Init /\ [][SteadyMoveNext]_vars /\ WF_vars(RenderSteady)

(***************************************************************************)
(* Properties of the SceneHandler's node management.                       *)
(***************************************************************************)
\* the geometry hash of each node the handler holds, and how many of the
\* nodes it holds carry the hash h
holds(sh, id) == id \in DOMAIN sh.node_resources_
hashOf(sh, id) == sh.node_resources_[id].geometry_hash
nodesWithHash(sh, h) ==
    Cardinality({id \in DOMAIN sh.node_resources_ : hashOf(sh, id) = h})

\* C1: on an initialized handler getNodeCount() is the number of distinct
\* node IDs whose add returned success and that no successful remove has
\* named since.
C1_NodeCount ==
    scene.initialized_ => getNodeCount(scene) = Cardinality(liveIDs)

\* two nodes were added and one of them has just been removed
C1_Witness ==
    /\ scene.initialized_
    /\ lastCall = Call("removeRenderableNodeByID", TRUE)
    /\ getNodeCount(scene) = 1
    /\ Cardinality(liveIDs) = 1

\* C2: adding a live node whose ID the handler already holds returns success
\* and changes nothing: node count, slot pools, geometry cache, reference
\* counts, the IAS and the NeedsRebuild flag are what they were.
C2_IdempotentAdd ==
    [][\A n \in NodeObjects, in \in AddInputs :
          (/\ lastCall'.op = "addRenderableNode"
           /\ scene.initialized_
           /\ nodes[n].alive
           /\ holds(scene, getID(n))
           /\ AddRenderableNode(n, in.cgModel, in.fail))
          => (lastCall'.ret /\ UNCHANGED <<scene, nodes>>)]_vars

\* a node was added, the structures were built, and the node was added again:
\* the add succeeded and the rebuild is still not pending
C2_Witness ==
    /\ scene.initialized_
    /\ lastCall = Call("addRenderableNode", TRUE)
    /\ getNodeCount(scene) >= 1
    /\ ~scene.ias_needs_rebuild_

\* C3: removing a node ID the handler does not hold, by ID or by node,
\* returns failure and changes nothing.
C3_RemoveAbsent ==
    [][/\ \A id \in ItemIDs \cup {INVALID_ID} :
            (/\ scene.initialized_
             /\ ~holds(scene, id)
             /\ RemoveRenderableNodeByID(id))
            => (~lastCall'.ret /\ UNCHANGED <<scene, nodes>>)
       /\ \A n \in NodeObjects :
            (/\ scene.initialized_
             /\ ~holds(scene, getID(n))
             /\ RemoveRenderableNode(n))
            => (~lastCall'.ret /\ UNCHANGED <<scene, nodes>>)]_vars

\* a remove failed on an initialized handler that holds another node and has
\* built its structures
C3_Witness ==
    /\ scene.initialized_
    /\ lastCall = Call("removeRenderableNodeByID", FALSE)
    /\ getNodeCount(scene) >= 1
    /\ ~scene.ias_needs_rebuild_

\* C4: as long as no remove has succeeded, the N nodes added with models of
\* one geometry hash share one geometry group, whose reference count is N.
C4_SharedGeometry ==
    (scene.initialized_ /\ ~anyRemove) =>
        \A id \in DOMAIN scene.node_resources_ :
            /\ hashOf(scene, id) \in DOMAIN scene.geometry_cache_
            /\ scene.geometry_cache_[hashOf(scene, id)].ref_count
                   = nodesWithHash(scene, hashOf(scene, id))

\* two nodes with the same geometry hash are held and nothing was removed
C4_Witness ==
    /\ scene.initialized_
    /\ ~anyRemove
    /\ \E id \in DOMAIN scene.node_resources_ :
          nodesWithHash(scene, hashOf(scene, id)) >= 2

\* C5: each successful remove decrements the reference count of the node's
\* geometry group by one, and the remove of the last node with a hash
\* destroys the group: the cache has no entry for the hash any more.
C5_RemoveReleasesGeometry ==
    [][\A id \in ItemIDs :
          (/\ scene.initialized_
           /\ holds(scene, id)
           /\ RemoveRenderableNodeByID(id))
          => LET h  == hashOf(scene, id)
                 rc == scene.geometry_cache_[h].ref_count
             IN  /\ lastCall'.ret
                 /\ IF rc > 1
                    THEN /\ h \in DOMAIN scene'.geometry_cache_
                         /\ scene'.geometry_cache_[h].ref_count = rc - 1
                    ELSE h \notin DOMAIN scene'.geometry_cache_]_vars

\* C6: once a Renderer-level remove has taken the last node out, hasGeometry()
\* is false and getTraversableHandle() is 0.
C6_EmptyAfterRemovingAll ==
    (/\ scene.initialized_
     /\ lastCall.op \in {"Renderer::removeRenderableNode",
                         "Renderer::removeRenderableNodeByID"}
     /\ lastCall.ret
     /\ getNodeCount(scene) = 0)
    => (~hasGeometry(scene) /\ getTraversableHandle(scene) = 0)

\* C7: on an initialized handler no two nodes held share an instance slot or
\* a geometry-instance slot, and the slots of every node held are marked
\* in use in their pools.
C7_SlotsDistinct ==
    scene.initialized_ =>
        /\ \A a, b \in DOMAIN scene.node_resources_ :
              a # b =>
                 /\ scene.node_resources_[a].instance_slot
                        # scene.node_resources_[b].instance_slot
                 /\ scene.node_resources_[a].geom_inst_slot
                        # scene.node_resources_[b].geom_inst_slot
        /\ \A a \in DOMAIN scene.node_resources_ :
              /\ scene.node_resources_[a].instance_slot
                     \in scene.inst_slot_finder_.inUse
              /\ scene.node_resources_[a].geom_inst_slot
                     \in scene.geom_inst_slot_finder_.inUse

\* C8: with maxNumInstances nodes held, the add of a live node the handler
\* does not hold returns failure and changes nothing.
C8_AddBeyondCapacity ==
    [][\A n \in ItemIDs, m \in {TestModel, QuadModel} :
          (/\ scene.initialized_
           /\ getNodeCount(scene) = maxNumInstances
           /\ nodes[n].alive
           /\ ~holds(scene, n)
           /\ AddRenderableNode(n, m, "none"))
          => (~lastCall'.ret /\ UNCHANGED <<scene, nodes>>)]_vars

\* C9: a build in which the backend fails (the memory-requirement query, a
\* buffer allocation or resize, or the build itself) returns failure and
\* leaves the traversable handle, the NeedsRebuild flag and the geometry
\* cache as they were.
C9_BuildFailureKeepsHandle ==
    [][\A b \in BuildOutcomes :
          (/\ scene.initialized_
           /\ scene.ias_ > 0
           /\ b.fail # "none"
           /\ BuildAccelerationStructures(b.fail, b.handle))
          => /\ ~lastCall'.ret
             /\ getTraversableHandle(scene') = getTraversableHandle(scene)
             /\ scene'.ias_needs_rebuild_ = scene.ias_needs_rebuild_
             /\ scene'.geometry_cache_ = scene.geometry_cache_]_vars

\* a build failed while an earlier build's handle was in place and a rebuild
\* was pending
C9_Witness ==
    /\ scene.initialized_
    /\ lastCall = Call("buildAccelerationStructures", FALSE)
    /\ scene.ias_ > 0
    /\ getTraversableHandle(scene) # 0
    /\ scene.ias_needs_rebuild_

(***************************************************************************)
(* Properties of the frame controller.                                     *)
(***************************************************************************)
\* C10: after a render() on an initialized Renderer the accumulation counter
\* is 0 if and only if the camera was dirty, its settings had changed, or
\* updateMotion was true for the frame; otherwise it is the smaller of its
\* value before the call plus one and maxAccumulationFrames_.
C10_AccumulationCounter ==
    [][(lastCall'.op = "Renderer::render" /\ lastCall'.ran)
          => LET reset == \/ camera.dirty
                          \/ camera.settingsChanged
                          \/ lastCall'.updateMotion
             IN  /\ (accumulationFrame_' = 0) <=> reset
                 /\ ~reset =>
                      accumulationFrame_' =
                          Min(accumulationFrame_ + 1, maxAccumulationFrames_)]_vars

\* a frame without camera change or motion was rendered with the counter
\* already at the cap
C10_Witness ==
    /\ lastCall.op = "Renderer::render"
    /\ lastCall.ran
    /\ ~lastCall.updateMotion
    /\ accumulationFrame_ = maxAccumulationFrames_
    /\ frameParams.numAccumFrames = maxAccumulationFrames_

\* C11: the accumulation counter is always between 0 and
\* maxAccumulationFrames_, and a frame rendered with the counter at the cap,
\* a clean camera and no motion leaves it at the cap.
C11_AccumulationCapped ==
    /\ [](accumulationFrame_ \in 0 .. maxAccumulationFrames_)
    /\ [][(/\ lastCall'.op = "Renderer::render"
           /\ lastCall'.ran
           /\ ~lastCall'.updateMotion
           /\ ~camera.dirty
           /\ ~camera.settingsChanged
           /\ accumulationFrame_ = maxAccumulationFrames_)
          => accumulationFrame_' = maxAccumulationFrames_]_vars

\* the counter is at the cap after the last frame number was rendered with a
\* clean camera and no motion
C11_Witness ==
    /\ lastCall.op = "Renderer::render"
    /\ lastCall.ran
    /\ ~lastCall.updateMotion
    /\ lastCall.frameNumber = MaxFrameNumber
    /\ ~camera.dirty
    /\ ~camera.settingsChanged
    /\ accumulationFrame_ = maxAccumulationFrames_

(***************************************************************************)
(* Properties of the top-level structure.                                  *)
(***************************************************************************)
\* C12: after a successful buildAccelerationStructures() the top-level
\* structure has exactly one child per node held: the number of its children
\* equals getNodeCount().
C12_OneInstancePerNode ==
    (scene.initialized_ /\ lastCall = Call("buildAccelerationStructures", TRUE))
    => scene.ias_ = getNodeCount(scene)

\* C13: on an initialized handler the traversable handle is non-zero only
\* while a node's instance is placed (with no node held the handle is 0), and
\* a successful build with a node held leaves it non-zero.
C13_HandleIffPlaced ==
    scene.initialized_ =>
        /\ getTraversableHandle(scene) # 0 => getNodeCount(scene) >= 1
        /\ (/\ lastCall = Call("buildAccelerationStructures", TRUE)
            /\ getNodeCount(scene) >= 1)
           => getTraversableHandle(scene) # 0

\* C14: a build on an initialized handler whose top-level structure has no
\* child returns success, leaves the handle 0 and hasGeometry() false, and
\* makes no backend call: no buffer is sized, whatever the backend would do.
C14_EmptyBuild ==
    [][\A b \in BuildOutcomes :
          (/\ scene.initialized_
           /\ scene.ias_ = 0
           /\ BuildAccelerationStructures(b.fail, b.handle))
          => /\ lastCall'.ret
             /\ getTraversableHandle(scene') = 0
             /\ ~hasGeometry(scene')
             /\ scene'.as_scratch_mem_ = scene.as_scratch_mem_
             /\ scene'.ias_mem_ = scene.ias_mem_
             /\ scene'.ias_instance_buffer_ = scene.ias_instance_buffer_]_vars

\* a build succeeded on an initialized handler with nothing placed
C14_Witness ==
    /\ scene.initialized_
    /\ lastCall = Call("buildAccelerationStructures", TRUE)
    /\ scene.ias_ = 0
    /\ getTraversableHandle(scene) = 0
    /\ ~hasGeometry(scene)

\* C15: on a handler that is not initialized (never initialized, failed to
\* initialize, or finalized) addRenderableNode, removeRenderableNode,
\* removeRenderableNodeByID and buildAccelerationStructures return failure
\* and change nothing.
C15_NotInitialized ==
    [][(/\ ~scene.initialized_
        /\ lastCall'.op \in {"addRenderableNode", "removeRenderableNode",
                             "removeRenderableNodeByID",
                             "buildAccelerationStructures"})
          => (~lastCall'.ret /\ UNCHANGED <<scene, nodes>>)]_vars

\* an add failed on a finalized handler that still records a node
C15_Witness ==
    /\ ~scene.initialized_
    /\ lastCall = Call("addRenderableNode", FALSE)
    /\ getNodeCount(scene) >= 1

(***************************************************************************)
(* Properties of the failure paths.                                        *)
(***************************************************************************)
\* the model is missing or invalid, or no geometry group can be built for it
\* (no surface with a triangle, or the backend fails while building it)
noGeometryFor(sh, cgModel, fail) ==
    \/ ~cgModel.present
    \/ ~cgModel.valid
    \/ /\ computeGeometryHash(cgModel) \notin DOMAIN sh.geometry_cache_
       /\ \/ \A i \in 1 .. Len(cgModel.surfaces) : cgModel.surfaces[i] = 0
          \/ fail = "createGeometryGroup"

\* C16 as stated: an add with an expired node reference, an invalid node ID,
\* a missing or invalid model, or a model for which no geometry group can be
\* built returns failure and changes nothing.
C16_InvalidInputFails ==
    [][\A n \in NodeObjects, in \in AddInputs :
          (/\ lastCall'.op = "addRenderableNode"
           /\ scene.initialized_
           /\ \/ ~nodes[n].alive
              \/ getID(n) = INVALID_ID
              \/ noGeometryFor(scene, in.cgModel, in.fail)
           /\ AddRenderableNode(n, in.cgModel, in.fail))
          => (~lastCall'.ret /\ UNCHANGED <<scene, nodes>>)]_vars

\* C16 amended: the same, where the cases about the model are those of a
\* node the handler does not hold already (the add of a held node returns
\* success before the model is looked at).
C16_InvalidInputFailsUnlessHeld ==
    [][\A n \in NodeObjects, in \in AddInputs :
          (/\ lastCall'.op = "addRenderableNode"
           /\ scene.initialized_
           /\ \/ ~nodes[n].alive
              \/ getID(n) = INVALID_ID
              \/ (~holds(scene, getID(n))
                  /\ noGeometryFor(scene, in.cgModel, in.fail))
           /\ AddRenderableNode(n, in.cgModel, in.fail))
          => (~lastCall'.ret /\ UNCHANGED <<scene, nodes>>)]_vars

\* an add failed on a built handler holding one node of the quad model and
\* left nothing behind; only an add with invalid input fails in that state
C16_Witness ==
    /\ scene.initialized_
    /\ lastCall = Call("addRenderableNode", FALSE)
    /\ getNodeCount(scene) = 1
    /\ scene.ias_ = 1
    /\ DOMAIN scene.geometry_cache_ = {computeGeometryHash(QuadModel)}
    /\ getTraversableHandle(scene) # 0
    /\ ~scene.ias_needs_rebuild_

\* C17: a backend failure raised inside a public entry point never escapes
\* it; for render(): no render() call ends with the backend's exception
\* leaving the call.
C17_NoEscape ==
    lastCall.op = "Renderer::render" => ~lastCall.escaped

(***************************************************************************)
(* Properties of shutdown and of the frames in flight.                     *)
(***************************************************************************)
\* C18: when Renderer::finalize releases the render context's resources no
\* submitted frame is in flight any more: the wait for all streams comes
\* before the cleanup.
C18_WaitBeforeRelease ==
    lastCall.op = "Renderer::finalize" => lastCall.inFlightAtCleanup = {}

\* finalize was called while a frame was in flight
C18_Witness ==
    /\ lastCall.op = "Renderer::finalize"
    /\ lastCall.inFlightAtCall # {}
    /\ lastCall.inFlightAtCleanup = {}
    /\ ~renderContext_

(***************************************************************************)
(* C19: addRenderableNode, removeRenderableNode and                        *)
(* removeRenderableNodeByID never rebuild the top-level structure          *)
(* themselves: whatever they return, they leave the traversable handle,    *)
(* the structure's memory and the build scratch memory as they were, and   *)
(* one that changed the set of nodes leaves the rebuild pending for the    *)
(* next buildAccelerationStructures().                                     *)
(***************************************************************************)
C19_NoImplicitRebuild ==
    [][lastCall'.op \in {"addRenderableNode", "removeRenderableNode",
                         "removeRenderableNodeByID"}
       => /\ scene'.traversable_handle_ = scene.traversable_handle_
          /\ scene'.ias_mem_ = scene.ias_mem_
          /\ scene'.as_scratch_mem_ = scene.as_scratch_mem_
          /\ (scene'.node_resources_ # scene.node_resources_
                => scene'.ias_needs_rebuild_)]_vars

\* a batch: the second of two nodes has been added, both are placed, and no
\* top-level structure has been built yet (the handle is still the empty one)
C19_Witness ==
    /\ lastCall = Call("addRenderableNode", TRUE)
    /\ getNodeCount(scene) = 2
    /\ scene.ias_ = 2
    /\ scene.traversable_handle_ = 0
    /\ scene.ias_needs_rebuild_
(***************************************************************************)
(* C20: the control thread never writes a copy of the instance data        *)
(* buffer while a frame submitted with that bufferIndex has not completed: *)
(* an add that creates a node instance, and so writes the buffer, happens  *)
(* only when no such frame is in flight.                                   *)
(***************************************************************************)
C20_NoWriteWhileInFlight ==
    [][(/\ lastCall'.op = "Renderer::addRenderableNode"
        /\ lastCall'.ret
        /\ scene'.node_resources_ # scene.node_resources_)
       => writtenInstDataBuffer \notin busyBuffers(streamChain)]_vars
(***************************************************************************)
(* C21: a frame that runs never waits for the frame submitted just before  *)
(* it (the stream it acquires is not the one that frame is in flight on),  *)
(* leaves the other stream's frame in flight, and returns with its own     *)
(* frame submitted and not completed.                                      *)
(***************************************************************************)
C21_PipelineDepth ==
    [][(lastCall'.op = "Renderer::render" /\ lastCall'.ran)
       => LET acquired == streamChain.current IN
          /\ ~(/\ streamChain.lastSubmitted = acquired
               /\ streamChain.inFlight[acquired] # NoFrame)
          /\ streamChain'.inFlight[1 - acquired] =
                 streamChain.inFlight[1 - acquired]
          /\ streamChain'.inFlight[acquired] = lastCall'.frameNumber % 2]_vars
(***************************************************************************)
(* C22: in every state the geometry cache has an entry for a hash exactly  *)
(* when some node held carries the hash, and the entry's ref_count is the  *)
(* number of nodes held that carry it.                                     *)
(***************************************************************************)
C22_CacheMatchesNodes ==
    /\ \A id \in DOMAIN scene.node_resources_ :
          hashOf(scene, id) \in DOMAIN scene.geometry_cache_
    /\ \A h \in DOMAIN scene.geometry_cache_ :
          /\ nodesWithHash(scene, h) > 0
          /\ scene.geometry_cache_[h].ref_count = nodesWithHash(scene, h)
C24_GeomPoolExhausted ==
    [][\A n \in NodeObjects, in \in AddInputs :
          (/\ lastCall'.op = "addRenderableNode"
           /\ scene.initialized_
           /\ nodes[n].alive
           /\ getID(n) # INVALID_ID
           /\ ~holds(scene, getID(n))
           /\ ~noGeometryFor(scene, in.cgModel, in.fail)
           /\ getFirstAvailableSlot(scene.inst_slot_finder_) < maxNumInstances
           /\ getFirstAvailableSlot(scene.geom_inst_slot_finder_)
                 >= scene.geomInstCapacity
           /\ AddRenderableNode(n, in.cgModel, in.fail))
          => /\ ~lastCall'.ret
             /\ scene'.inst_slot_finder_ = scene.inst_slot_finder_
             /\ scene'.geom_inst_slot_finder_ = scene.geom_inst_slot_finder_
             /\ scene'.geometry_cache_ = scene.geometry_cache_]_vars
(***************************************************************************)
(* C25: an add that took both slots and a geometry group and then fails in *)
(* createNodeInstance returns failure and leaves the handler as it was:    *)
(* no node recorded, both slot pools and the geometry cache as before the  *)
(* call, and the top-level structure with the children it had.             *)
(***************************************************************************)
C25_PlacementFailureRollsBack ==
    [][\A n \in NodeObjects, in \in AddInputs :
          (/\ lastCall'.op = "addRenderableNode"
           /\ in.fail \in {"instance_buffer", "createInstance", "map"}
           /\ scene.initialized_
           /\ nodes[n].alive
           /\ getID(n) # INVALID_ID
           /\ ~holds(scene, getID(n))
           /\ ~noGeometryFor(scene, in.cgModel, in.fail)
           /\ getFirstAvailableSlot(scene.inst_slot_finder_) < maxNumInstances
           /\ getFirstAvailableSlot(scene.geom_inst_slot_finder_)
                 < scene.geomInstCapacity
           /\ AddRenderableNode(n, in.cgModel, in.fail)
           /\ ~lastCall'.ret)
          => /\ nodes' = nodes
             /\ scene'.node_resources_ = scene.node_resources_
             /\ scene'.inst_slot_finder_ = scene.inst_slot_finder_
             /\ scene'.geom_inst_slot_finder_ = scene.geom_inst_slot_finder_
             /\ scene'.geometry_cache_ = scene.geometry_cache_
             /\ scene'.ias_ = scene.ias_]_vars
(***************************************************************************)
(* C26: every add or remove that changed the set of nodes held leaves      *)
(* ias_needs_rebuild_ set, and once set it is cleared by nothing but a     *)
(* buildAccelerationStructures() that returns success.                     *)
(***************************************************************************)
C26_NeedsRebuildUntilBuilt ==
    [][/\ (/\ lastCall'.op \in {"addRenderableNode", "removeRenderableNode",
                                 "removeRenderableNodeByID"}
           /\ lastCall'.ret
           /\ scene'.node_resources_ # scene.node_resources_)
          => scene'.ias_needs_rebuild_
       /\ (scene.ias_needs_rebuild_ /\ ~scene'.ias_needs_rebuild_)
          => lastCall' = Call("buildAccelerationStructures", TRUE)]_vars

\* a build has just failed with a node held: the rebuild is still pending
C26_Witness ==
    /\ lastCall = Call("buildAccelerationStructures", FALSE)
    /\ getNodeCount(scene) > 0
    /\ scene.ias_needs_rebuild_
(***************************************************************************)
(* C27: after every buildAccelerationStructures() that returned success,   *)
(* on the empty path as on the non-empty one, ias_needs_rebuild_ is clear. *)
(***************************************************************************)
C27_SuccessClearsNeedsRebuild ==
    lastCall = Call("buildAccelerationStructures", TRUE)
        => ~scene.ias_needs_rebuild_
(***************************************************************************)
(* C28: no add, remove or build makes the scratch memory, the structure's  *)
(* memory or the instance buffer smaller, and after a successful build of  *)
(* a non-empty scene each is at least what the build required for the      *)
(* instances placed.                                                       *)
(***************************************************************************)
C28_BuffersGrowOnly ==
    [][lastCall'.op \in {"addRenderableNode", "removeRenderableNode",
                         "removeRenderableNodeByID",
                         "buildAccelerationStructures"}
       => /\ scene'.as_scratch_mem_ >= scene.as_scratch_mem_
          /\ scene'.ias_mem_ >= scene.ias_mem_
          /\ scene'.ias_instance_buffer_ >= scene.ias_instance_buffer_
          /\ (lastCall' = Call("buildAccelerationStructures", TRUE)
               /\ scene.ias_ > 0)
                => /\ scene'.as_scratch_mem_ >= tempSizeInBytes(scene.ias_)
                   /\ scene'.ias_mem_ >= outputSizeInBytes(scene.ias_)
                   /\ scene'.ias_instance_buffer_ >= scene.ias_]_vars

\* a successful build over as many instances as the model places, more than
\* the nodes held: the memories have the sizes it required
C28_Witness ==
    /\ lastCall = Call("buildAccelerationStructures", TRUE)
    /\ scene.ias_ = MaxChildren
    /\ getNodeCount(scene) < scene.ias_
    /\ scene.as_scratch_mem_ = tempSizeInBytes(MaxChildren)
    /\ scene.ias_mem_ = outputSizeInBytes(MaxChildren)
    /\ scene.ias_instance_buffer_ >= MaxChildren
(***************************************************************************)
(* C29: the launch parameters of a frame carry the accumulation counter as *)
(* the frame's update left it, ask for the temporal reset exactly when     *)
(* that counter is 0, carry the scene's current traversable handle, and    *)
(* name buffer frameNumber mod 2.                                          *)
(***************************************************************************)
C29_LaunchParameters ==
    (lastCall.op = "Renderer::render" /\ lastCall.ran)
    => /\ frameParams.numAccumFrames = accumulationFrame_
       /\ frameParams.resetFlowBuffer = (frameParams.numAccumFrames = 0)
       /\ frameParams.travHandle = getTraversableHandle(scene)
       /\ frameParams.frameIndex = lastCall.frameNumber
       /\ frameParams.bufferIndex = lastCall.frameNumber % 2

\* an odd frame of a scene with a built structure, rendered with scene
\* motion flagged after frames had accumulated
C29_Witness ==
    /\ lastCall.op = "Renderer::render"
    /\ lastCall.ran
    /\ lastCall.updateMotion
    /\ frameParams.travHandle # 0
    /\ frameParams.numAccumFrames = 0
    /\ frameParams.resetFlowBuffer
    /\ frameParams.bufferIndex = 1
(***************************************************************************)
(* C30: the prevCamera of every frame after the first is the camera of the *)
(* frame before it, and a frame that finds the camera neither dirty nor    *)
(* with changed settings has prevCamera equal to camera.                   *)
(***************************************************************************)
C30_PreviousCamera ==
    [][(lastCall'.op = "Renderer::render" /\ lastCall'.ran)
       => /\ frameParams # NoFrameParams
                => frameParams'.prevCamera = frameParams.camera
          /\ ~(camera.dirty \/ camera.settingsChanged)
                => frameParams'.prevCamera = frameParams'.camera]_vars

\* a frame rendered after the camera moved away from the pose an earlier
\* frame had rendered
C30_Witness ==
    /\ lastCall.op = "Renderer::render"
    /\ lastCall.ran
    /\ frameParams.prevCamera # 0
    /\ frameParams.camera # frameParams.prevCamera
(***************************************************************************)
(* Properties of shutdown and re-initialization of the SceneHandler.       *)
(***************************************************************************)
\* C31: finalize() releases the top-level structure and its memory, the
\* bottom-level structures (every cached geometry group) and the slot pools:
\* after finalize no top-level child, no geometry group and no slot remains
\* allocated.
C31_FinalizeReleasesAll ==
    lastCall.op = "finalize"
    => /\ scene.ias_ = 0
       /\ scene.ias_mem_ = 0
       /\ scene.as_scratch_mem_ = 0
       /\ scene.ias_instance_buffer_ = 0
       /\ DOMAIN scene.geometry_cache_ = {}
       /\ scene.inst_slot_finder_ = SlotFinder_finalize
       /\ scene.geom_inst_slot_finder_ = SlotFinder_finalize
       /\ scene.material_slot_finder_ = SlotFinder_finalize
(***************************************************************************)
(* C32: slots released by remove become available again.  From every state *)
(* with the instance pool full, after the removal of any k nodes held, the *)
(* adds of new valid nodes succeed k times and fail from the (k+1)-th on.  *)
(***************************************************************************)
\* the handler after removeRenderableNodeByID of every ID of ids, in
\* ascending order
RECURSIVE removeEach(_, _, _)
removeEach(sh, nd, ids) ==
    IF ids = {} THEN [scene |-> sh, nodes |-> nd]
    ELSE LET id == CHOOSE a \in ids : \A b \in ids : a <= b
             r  == removeRenderableNodeByID(sh, nd, id)
         IN  removeEach(r.scene, r.nodes, ids \ {id})

\* what addRenderableNode returns for each node of ns in turn, every node
\* carrying the one-triangle model, with a backend that does not fail
RECURSIVE addEach(_, _, _)
addEach(sh, nd, ns) ==
    IF ns = {} THEN << >>
    ELSE LET n == CHOOSE a \in ns : \A b \in ns : a <= b
             r == addRenderableNode(sh, nd, n, TestModel, "none")
         IN  <<r.ret>> \o addEach(r.scene, r.nodes, ns \ {n})

instancePoolFull(sh) ==
    getFirstAvailableSlot(sh.inst_slot_finder_) >= maxNumInstances

C32_ReleasedSlotsReused ==
    (scene.initialized_ /\ instancePoolFull(scene))
    => \A K \in SUBSET DOMAIN scene.node_resources_ :
          LET removed == removeEach(scene, nodes, K)
              fresh   == {n \in ItemIDs : /\ removed.nodes[n].alive
                                          /\ ~holds(removed.scene, n)}
              rets    == addEach(removed.scene, removed.nodes, fresh)
          IN  \A i \in 1 .. Len(rets) : rets[i] = (i <= Cardinality(K))
(***************************************************************************)
(* C33: a single camera change resets accumulation in exactly one frame.   *)
(* The frame that finds the camera dirty or with changed settings leaves   *)
(* the counter at 0, and the frame rendered next, the camera untouched in  *)
(* between and no motion flagged, leaves it at 1: the change was consumed. *)
(***************************************************************************)
C33_ChangeConsumedByOneFrame ==
    [][(lastCall'.op = "Renderer::render" /\ lastCall'.ran)
       => /\ (camera.dirty \/ camera.settingsChanged)
                => accumulationFrame_' = 0
          /\ (/\ lastCall.op = "Renderer::render"
              /\ lastCall.ran
              /\ ~lastCall.updateMotion
              /\ accumulationFrame_ = 0
              /\ ~lastCall'.updateMotion)
                => accumulationFrame_' = 1]_vars
(***************************************************************************)
(* C34: in every state a node object that still exists has its             *)
(* StoredInSceneHandler flag set exactly when its ID is in the handler's   *)
(* node set.                                                               *)
(***************************************************************************)
C34_StoredFlagMatchesNodeSet ==
    \A n \in ItemIDs :
        nodes[n].alive => (nodes[n].stored <=> holds(scene, getID(n)))
(***************************************************************************)
(* C35: at every render() call the copy of the instance data table that    *)
(* the frame's bufferIndex (frameNumber mod 2) selects holds an entry at   *)
(* the instance slot of every node held.                                   *)
(***************************************************************************)
C35_SelectedCopyHoldsEntries ==
    (lastCall.op = "Renderer::render" /\ lastCall.ran)
    => \A id \in DOMAIN scene.node_resources_ :
          scene.node_resources_[id].instance_slot
              \in scene.inst_data_buffer_[frameParams.bufferIndex]
(***************************************************************************)
(* C36: in every state of an initialized handler, whatever adds, removes   *)
(* and builds came before, hasGeometry() is true exactly when              *)
(* getNodeCount() > 0.                                                     *)
(***************************************************************************)
C36_HasGeometryIffNodes ==
    scene.initialized_ => (hasGeometry(scene) <=> getNodeCount(scene) > 0)
(***************************************************************************)
(* C37: finalize() followed by a successful initialize() yields a fresh    *)
(* handler: no node, no geometry group, handle 0, hasGeometry() false, no  *)
(* rebuild pending, and every slot a tracked node records marked in use.   *)
(***************************************************************************)
C37_ReinitializeIsFresh ==
    [][(lastCall.op = "finalize" /\ lastCall' = Call("initialize", TRUE))
       => /\ getNodeCount(scene') = 0
          /\ DOMAIN scene'.geometry_cache_ = {}
          /\ getTraversableHandle(scene') = 0
          /\ ~hasGeometry(scene')
          /\ ~scene'.ias_needs_rebuild_
          /\ \A id \in DOMAIN scene'.node_resources_ :
                /\ scene'.node_resources_[id].instance_slot
                       \in scene'.inst_slot_finder_.inUse
                /\ scene'.node_resources_[id].geom_inst_slot
                       \in scene'.geom_inst_slot_finder_.inUse]_vars
(***************************************************************************)
(* C38: once the application neither touches the camera nor flags motion   *)
(* and keeps calling render(), the accumulation counter reaches            *)
(* maxAccumulationFrames_ and stays there.                                 *)
(***************************************************************************)
C38_AccumulationConverges ==
    steadyFrame ~> [](accumulationFrame_ = maxAccumulationFrames_)
(***************************************************************************)
(* C39: for a node object that is alive removeRenderableNode(node)         *)
(* returns what removeRenderableNodeByID(node's ID) returns and leaves the *)
(* state that call leaves.  A node held whose object has expired cannot be *)
(* removed by reference (the call fails and changes nothing), and          *)
(* removeRenderableNodeByID removes it and releases both its slots.        *)
(***************************************************************************)
C39_RemoveByReferenceOrByID ==
    [][/\ \A n \in NodeObjects :
            (lastCall'.op = "removeRenderableNode" /\ RemoveRenderableNode(n))
            => IF nodes[n].alive
               THEN LET byID == removeRenderableNodeByID(scene, nodes, getID(n))
                    IN  /\ lastCall'.ret = byID.ret
                        /\ scene' = byID.scene
                        /\ nodes' = byID.nodes
               ELSE ~lastCall'.ret /\ UNCHANGED <<scene, nodes>>
       /\ \A id \in ItemIDs :
            (/\ lastCall'.op = "removeRenderableNodeByID"
             /\ scene.initialized_
             /\ holds(scene, id)
             /\ ~nodes[id].alive
             /\ RemoveRenderableNodeByID(id))
            => /\ lastCall'.ret
               /\ ~holds(scene', id)
               /\ scene.node_resources_[id].instance_slot
                      \notin scene'.inst_slot_finder_.inUse
               /\ scene.node_resources_[id].geom_inst_slot
                      \notin scene'.geom_inst_slot_finder_.inUse]_vars

\* a remove by reference has just failed on an initialized handler that holds
\* node 1, whose object has expired
C39_Witness ==
    /\ scene.initialized_
    /\ lastCall = Call("removeRenderableNode", FALSE)
    /\ ~nodes[1].alive
    /\ holds(scene, 1)
    /\ scene.node_resources_[1].instance_slot \in scene.inst_slot_finder_.inUse
(***************************************************************************)
(* C40: initialized_ is true only while a render context exists, and a     *)
(* render() on a Renderer that is not initialized acquires no stream,      *)
(* submits no work, swaps no stream and leaves the accumulation counter    *)
(* and both camera snapshots as they were.                                 *)
(***************************************************************************)
C40_UninitializedRenderIsInert ==
    /\ [](initialized_ => renderContext_)
    /\ [][(lastCall'.op = "Renderer::render"
           /\ (~initialized_ \/ ~renderContext_))
          => /\ ~lastCall'.ran
             /\ UNCHANGED <<streamChain, accumulationFrame_, currentCamera_,
                            previousCamera_, frameParams>>]_vars
====
